---------------------------- MODULE Spec2Model ----------------------------
(***************************************************************************)
(* Model of src/Tool.py: RasterValueExtractor.processAlgorithm, the        *)
(* clip -> grid -> mask -> sample/rename -> write pipeline, with its       *)
(* column-name helpers (unique_name, sort_by_suffix, base_name_from_clip). *)
(*                                                                         *)
(* Names and paths are TLA+ strings, handled character by character as the *)
(* Python code handles them.  The external collaborators (processing.run,  *)
(* the data provider, the vector file writer) are nondeterministic over    *)
(* the outcomes the code itself distinguishes: a result, a missing output, *)
(* an exception, a failed or partial rename.                               *)
(***************************************************************************)
EXTENDS Integers, Sequences, FiniteSets, TLC

(***************************************************************************)
(* Bounds of the model.                                                    *)
(***************************************************************************)
\* longest list of input rasters
MaxRasters == 2
\* longest sequence of unique_name calls of SpecUN
MaxCalls == 4

(***************************************************************************)
(* String helpers: what the Python string and os.path functions do.        *)
(***************************************************************************)
Max(a, b) == IF a >= b THEN a ELSE b

Min(a, b) == IF a <= b THEN a ELSE b

CharAt(s, j) == SubSeq(s, j, j)

Digits == {"0", "1", "2", "3", "4", "5", "6", "7", "8", "9"}

DigitVal(c) ==
    CASE c = "0" -> 0 [] c = "1" -> 1 [] c = "2" -> 2 [] c = "3" -> 3
      [] c = "4" -> 4 [] c = "5" -> 5 [] c = "6" -> 6 [] c = "7" -> 7
      [] c = "8" -> 8 [] c = "9" -> 9

\* int(s) of a string of decimal digits
RECURSIVE ParseInt(_)
ParseInt(s) ==
    IF Len(s) = 0 THEN 0
    ELSE ParseInt(SubSeq(s, 1, Len(s) - 1)) * 10 + DigitVal(CharAt(s, Len(s)))

\* str.startswith
StartsWith(s, p) == Len(s) >= Len(p) /\ SubSeq(s, 1, Len(p)) = p

\* str.endswith
EndsWith(s, p) == Len(s) >= Len(p) /\ SubSeq(s, Len(s) - Len(p) + 1, Len(s)) = p

\* str.rfind, 1-based; 0 when c does not occur
LastIndexOf(s, c) ==
    LET hits == {j \in 1..Len(s) : CharAt(s, j) = c}
    IN  IF hits = {} THEN 0 ELSE CHOOSE j \in hits : \A h \in hits : h <= j

\* os.path.basename
basename(path) == SubSeq(path, LastIndexOf(path, "/") + 1, Len(path))

\* os.path.splitext(p)[0]: cut at the last dot, unless only dots precede it
splitext_root(p) ==
    LET d == LastIndexOf(p, ".")
    IN  IF d > 0 /\ \E j \in 1..(d - 1) : CharAt(p, j) # "."
        THEN SubSeq(p, 1, d - 1)
        ELSE p

\* os.path.join(a, b) for a relative b
path_join(a, b) == a \o "/" \o b

SeqToSet(s) == {s[j] : j \in 1..Len(s)}

(***************************************************************************)
(* The environment of a run.                                               *)
(***************************************************************************)
\* the raster files a run may be given: path -> number of bands
RasterBands ==
    [p \in {"/d1/a.tif", "/d2/a.tif", "/d1/id.tif", "/d1/tmp1__2.tif"} |->
        IF p = "/d2/a.tif" THEN 2 ELSE 1]

RasterSources == DOMAIN RasterBands

\* QgsProject.instance().homePath()
project_home == "/proj"

\* line 142
temp_dir == path_join(project_home, "temp_clip")

\* line 162
output_clip(raster_path) ==
    path_join(temp_dir, splitext_root(basename(raster_path)) \o "_clip.tif")

\* the paths the clips of a run may be written to
ScratchPaths == {output_clip(r) : r \in RasterSources}

\* the attribute columns of the point layer qgis:creategrid returns
GridColumns == <<"id", "left", "top", "right", "bottom">>

\* a column of the grid: its name, and the values it holds (the raster file
\* content and band they were sampled from, "" and 0 for the grid's own
\* columns); iter is the sampling iteration that added it (-1: none)
GridColumn(name) == [name |-> name, src |-> "", band |-> 0, iter |-> -1]

NoLayer == [layer |-> "", fields |-> <<>>, rows |-> "", editing |-> FALSE]

FieldNames(g) == [j \in 1..Len(g.fields) |-> g.fields[j].name]

VARIABLES
    raster_layers,    \* parameter INPUT_RASTERS: the source paths, in order
    pc,               \* position in processAlgorithm
    i,                \* loop index of the clip loop, then of the sampling loop
    canceled,         \* feedback.isCanceled() as last polled; the user may
                      \* cancel at any time, and the flag is never reset
    progress,         \* last feedback.setProgress value
    warning,          \* the feedback.pushWarning of the last step, "" if none
    fatal,            \* message of the QgsProcessingException raised, "" if none
    files,            \* the scratch directory: path -> source whose clip the
                      \* file holds, "" when there is no such file
    clipped_rasters,  \* list of clipped raster paths
    clip_log,         \* per attempted raster, what the clip primitive did:
                      \* "written", "notwritten", or "failed" (no output, or
                      \* an exception)
    clipped_src,      \* per entry of clipped_rasters, the 0-based input index
    grid_layer,       \* the full point grid
    mask_layer,       \* "polygon" or "buffered"
    grid,             \* the working grid, threaded through the sampling loop
    used_names,       \* registry of allocated column names
    final_base,       \* column base name of the current raster
    fields_before,    \* column names before the current sampling
    new_fields_sorted,\* new column names, in band order
    final_names,      \* names resolved for the new columns
    sample_log,       \* per sampled raster, "ok" or "throw"
    rename_log,       \* outcome of the current iteration's rename step
    cancel_seen,      \* the loops that observed the cancellation and broke
                      \* off: a subset of {"clip", "sample"}
    out_paths,        \* resolved <<out_gpkg, out_csv>>
    written,          \* per format: attempts made, columns written
    result,           \* the returned paths
    calls             \* log of unique_name calls (SpecUN)

vars == <<raster_layers, pc, i, canceled, progress, warning, fatal, files,
          clipped_rasters, clip_log, clipped_src, grid_layer, mask_layer, grid,
          used_names, final_base, fields_before, new_fields_sorted,
          final_names, sample_log, rename_log, cancel_seen, out_paths, written,
          result, calls>>

\* sequences over S of length at most n
RECURSIVE SeqsUpTo(_, _)
SeqsUpTo(S, n) ==
    IF n = 0 THEN {<<>>}
    ELSE LET shorter == SeqsUpTo(S, n - 1)
         IN  shorter \cup {Append(s, x) : s \in {t \in shorter : Len(t) = n - 1}, x \in S}

NoWrites == [gpkg |-> [attempts |-> 0, columns |-> <<>>],
             csv  |-> [attempts |-> 0, columns |-> <<>>]]

Blank ==
    /\ i = 0
    /\ canceled = FALSE
    /\ progress = 0
    /\ warning = ""
    /\ fatal = ""
    /\ files = [p \in ScratchPaths |-> ""]
    /\ clipped_rasters = <<>>
    /\ clip_log = <<>>
    /\ clipped_src = <<>>
    /\ grid_layer = NoLayer
    /\ mask_layer = ""
    /\ grid = NoLayer
    /\ used_names = {}
    /\ final_base = ""
    /\ fields_before = <<>>
    /\ new_fields_sorted = <<>>
    /\ final_names = <<>>
    /\ sample_log = <<>>
    /\ rename_log = ""
    /\ cancel_seen = {}
    /\ out_paths = <<>>
    /\ written = NoWrites
    /\ result = <<>>
    /\ calls = <<>>

Init ==
    /\ raster_layers \in SeqsUpTo(RasterSources, MaxRasters)
    /\ pc = "read"
    /\ Blank


(***************************************************************************)
(* Helpers for unique column names (lines 299-321).                        *)
(***************************************************************************)
\* line 299: the raster name without the '_clip' suffix
base_name_from_clip(path) ==
    LET b == splitext_root(basename(path))
    IN  IF EndsWith(b, "_clip") THEN SubSeq(b, 1, Len(b) - 5) ELSE b

\* the while loop of unique_name: n is the candidate, k the next suffix
RECURSIVE unique_name_loop(_, _, _, _)
unique_name_loop(base, n, k, used) ==
    IF n \in used
    THEN unique_name_loop(base, base \o "_" \o ToString(k), k + 1, used)
    ELSE n

\* a unique_name that never looks at the registry
unique_name_unchecked(base, used) == base

\* line 306: the name unique_name(base) returns when the registry holds used;
\* the caller adds it to used_names (line 313)
unique_name(base, used) == unique_name_loop(base, base, 1, used)

\* line 318: the trailing run of digits as a number, 1 when there is none
keyfunc(n) ==
    LET nondigit == {j \in 1..Len(n) : CharAt(n, j) \notin Digits}
        start == IF nondigit = {} THEN 1
                 ELSE 1 + CHOOSE j \in nondigit : \A h \in nondigit : h <= j
    IN  IF start > Len(n) THEN 1 ELSE ParseInt(SubSeq(n, start, Len(n)))

\* insertion of x into a list sorted by keyfunc, after the entries of equal key
RECURSIVE insert_sorted(_, _)
insert_sorted(sorted, x) ==
    IF sorted = <<>> THEN <<x>>
    ELSE IF keyfunc(x) < keyfunc(Head(sorted))
         THEN <<x>> \o sorted
         ELSE <<Head(sorted)>> \o insert_sorted(Tail(sorted), x)

\* line 316: sorted(names, key=keyfunc), a stable sort
RECURSIVE sort_by_suffix(_)
sort_by_suffix(names) ==
    IF names = <<>> THEN <<>>
    ELSE insert_sorted(sort_by_suffix(SubSeq(names, 1, Len(names) - 1)),
                       names[Len(names)])

\* line 373: [unique_name(f'{final_base}_B{j+1}') for j in range(n)], with the
\* registry after the calls; j counts the names already made
RECURSIVE band_names(_, _, _, _)
band_names(fbase, n, j, acc) ==
    IF j >= n THEN acc
    ELSE LET name == unique_name(fbase \o "_B" \o ToString(j + 1), acc.used)
         IN  band_names(fbase, n, j + 1,
                        [names |-> Append(acc.names, name),
                         used  |-> acc.used \cup {name}])

\* line 339
tmp_prefix(k) == "tmp" \o ToString(k) \o "__"

(***************************************************************************)
(* Reading the parameters (lines 128-152).                                 *)
(***************************************************************************)
Abort(msg) ==
    /\ pc' = "fatal"
    /\ fatal' = msg

ReadParameters ==
    /\ pc = "read"
    /\ \E polygon_valid \in BOOLEAN :
         IF ~polygon_valid
         THEN Abort("Error: invalid field polygon.")
         ELSE IF raster_layers = <<>>
         THEN Abort("Error: no rasters selected.")
         ELSE pc' = "clip" /\ fatal' = fatal
    /\ i' = 0
    /\ warning' = ""
    /\ UNCHANGED <<raster_layers, canceled, progress, files, clipped_rasters,
                   clip_log, clipped_src, grid_layer, mask_layer, grid,
                   used_names, final_base, fields_before, new_fields_sorted,
                   final_names, sample_log, rename_log, cancel_seen, out_paths,
                   written, result, calls>>

(***************************************************************************)
(* Clipping each raster to the polygon (lines 154-187).                    *)
(***************************************************************************)
total == Len(raster_layers)

\* line 158: int((i / max(total, 1)) * 30); the float product is within one
\* unit in the last place of the exact quotient taken here
clip_progress(k, n) == (k * 30) \div Max(n, 1)

\* the scratch directory after a clip of src wrote its output to path
FilesAfterWrite(path, src) == [files EXCEPT ![path] = src]

\* os.path.exists, in the scratch directory fs
path_exists(fs, path) == fs[path] # ""

\* what gdal:cliprasterbymasklayer may do: write the output and return it,
\* return an output path it did not write, return no output, or throw
ClipOutcomes == {"written", "notwritten", "nooutput", "throw"}

\* after iteration k of a loop over n entries: the loop again, or what follows
AfterIteration(k, n, again, after) == IF k + 1 < n THEN again ELSE after

\* feedback.isCanceled(): true once the user has canceled
PollCanceled == IF canceled THEN {TRUE} ELSE BOOLEAN

\* lines 155-156
ClipCanceled ==
    /\ canceled'
    /\ pc' = "checkclip"
    /\ cancel_seen' = cancel_seen \cup {"clip"}
    /\ warning' = ""
    /\ UNCHANGED <<i, progress, files, clipped_rasters, clip_log, clipped_src>>

\* a failed clip that ends the clipping loop
ClipSkippedEndsLoop(o) ==
    /\ warning' = "Error clipping " \o splitext_root(basename(raster_layers[i + 1]))
    /\ pc' = "checkclip"
    /\ i' = i + 1
    /\ UNCHANGED <<clipped_rasters, clipped_src>>

\* lines 182 and 184: the warning, and on to the next raster
ClipSkipped(o) ==
    /\ warning' = (IF o = "throw" THEN "Error clipping "
                                  ELSE "Could not save clipped raster: ")
                  \o splitext_root(basename(raster_layers[i + 1]))
    /\ pc' = AfterIteration(i, total, "clip", "checkclip")
    /\ i' = i + 1
    /\ UNCHANGED <<clipped_rasters, clipped_src>>

\* line 180
ClipKept ==
    /\ clipped_rasters' = Append(clipped_rasters, output_clip(raster_layers[i + 1]))
    /\ clipped_src' = Append(clipped_src, i)
    /\ warning' = ""
    /\ pc' = AfterIteration(i, total, "clip", "checkclip")
    /\ i' = i + 1

\* lines 158-184
ClipAttempt ==
    /\ ~canceled'
    /\ progress' = clip_progress(i, total)
    /\ \E o \in ClipOutcomes :
         /\ clip_log' = Append(clip_log, IF o \in {"nooutput", "throw"}
                                         THEN "failed" ELSE o)
         /\ files' = IF o = "written"
                     THEN FilesAfterWrite(output_clip(raster_layers[i + 1]),
                                          raster_layers[i + 1])
                     ELSE files
         /\ IF o \in {"written", "notwritten"}
               /\ path_exists(files', output_clip(raster_layers[i + 1]))
            THEN ClipKept
            ELSE ClipSkipped(o)
    /\ UNCHANGED cancel_seen

ClipRaster ==
    /\ pc = "clip"
    /\ i < total
    /\ canceled' \in PollCanceled
    /\ (ClipCanceled \/ ClipAttempt)
    /\ UNCHANGED <<raster_layers, fatal, grid_layer, mask_layer, grid,
                   used_names, final_base, fields_before, new_fields_sorted,
                   final_names, sample_log, rename_log, out_paths, written,
                   result, calls>>

\* lines 186-187
CheckClipped ==
    /\ pc = "checkclip"
    /\ IF clipped_rasters = <<>>
       THEN Abort("No valid rasters after clipping.")
       ELSE pc' = "ref" /\ fatal' = fatal
    /\ warning' = ""
    /\ UNCHANGED <<raster_layers, i, canceled, progress, files, clipped_rasters,
                   clip_log, clipped_src, grid_layer, mask_layer, grid,
                   used_names, final_base, fields_before, new_fields_sorted,
                   final_names, sample_log, rename_log, cancel_seen, out_paths,
                   written, result, calls>>

(***************************************************************************)
(* Reference raster, point grid, buffer, grid clip (lines 193-293).        *)
(***************************************************************************)
\* lines 193-200
LoadReference ==
    /\ pc = "ref"
    /\ \E valid \in BOOLEAN :
         IF valid
         THEN pc' = "grid" /\ fatal' = fatal
         ELSE Abort("Error loading first clipped raster.")
    /\ warning' = ""
    /\ UNCHANGED <<raster_layers, i, canceled, progress, files, clipped_rasters,
                   clip_log, clipped_src, grid_layer, mask_layer, grid,
                   used_names, final_base, fields_before, new_fields_sorted,
                   final_names, sample_log, rename_log, cancel_seen, out_paths,
                   written, result, calls>>

\* lines 206-240
CreateGrid ==
    /\ pc = "grid"
    /\ progress' = 40
    /\ \E ok \in BOOLEAN :
         IF ok
         THEN /\ grid_layer' = [layer |-> "grid", rows |-> "extent",
                                editing |-> FALSE,
                                fields |-> [j \in 1..Len(GridColumns) |->
                                               GridColumn(GridColumns[j])]]
              /\ pc' = "buffer"
              /\ fatal' = fatal
         ELSE /\ Abort("Grid creation failed")
              /\ UNCHANGED grid_layer
    /\ warning' = ""
    /\ UNCHANGED <<raster_layers, i, canceled, files, clipped_rasters, clip_log,
                   clipped_src, mask_layer, grid, used_names, final_base,
                   fields_before, new_fields_sorted, final_names, sample_log,
                   rename_log, cancel_seen, out_paths, written, result, calls>>

\* lines 246-271: buffer_size > 0 and the buffer built, buffer_size > 0 and the
\* buffer failed, or no buffer asked for
ApplyBuffer ==
    /\ pc = "buffer"
    /\ progress' = 45
    /\ \E o \in {"buffered", "failed", "none"} :
         /\ mask_layer' = IF o = "buffered" THEN "buffered" ELSE "polygon"
         /\ warning' = IF o = "failed" THEN "Buffer failed" ELSE ""
    /\ pc' = "clipgrid"
    /\ UNCHANGED <<raster_layers, i, canceled, fatal, files, clipped_rasters,
                   clip_log, clipped_src, grid_layer, grid, used_names,
                   final_base, fields_before, new_fields_sorted, final_names,
                   sample_log, rename_log, cancel_seen, out_paths, written,
                   result, calls>>

\* lines 277-293; the rows of the clipped grid are the grid points inside
\* the mask
ClipGrid ==
    /\ pc = "clipgrid"
    /\ progress' = 50
    /\ \E ok \in BOOLEAN :
         IF ok
         THEN /\ grid' = [grid_layer EXCEPT !.layer = "clipped",
                                            !.rows = mask_layer]
              /\ pc' = "startsample"
              /\ fatal' = fatal
         ELSE /\ Abort("Grid clipping failed")
              /\ UNCHANGED grid
    /\ warning' = ""
    /\ UNCHANGED <<raster_layers, i, canceled, files, clipped_rasters, clip_log,
                   clipped_src, grid_layer, mask_layer, used_names, final_base,
                   fields_before, new_fields_sorted, final_names, sample_log,
                   rename_log, cancel_seen, out_paths, written, result, calls>>

(***************************************************************************)
(* Raster sampling (lines 304-395).                                        *)
(***************************************************************************)
\* lines 304 and 327-328
StartSampling ==
    /\ pc = "startsample"
    /\ used_names' = {}
    /\ progress' = 55
    /\ i' = 0
    /\ pc' = "sample"
    /\ warning' = ""
    /\ UNCHANGED <<raster_layers, canceled, fatal, files, clipped_rasters,
                   clip_log, clipped_src, grid_layer, mask_layer, grid,
                   final_base, fields_before, new_fields_sorted, final_names,
                   sample_log, rename_log, cancel_seen, out_paths, written,
                   result, calls>>

\* a sampling progress without its 55 offset
sample_progress_no_offset(k, n) == (k * 40) \div Max(n, 1)

\* line 334; the float product is within one unit in the last place of the
\* exact quotient taken here
sample_progress(k, n) == 55 + (k * 40) \div Max(n, 1)

\* a cancellation that raises instead of leaving the loop
SampleCanceledAborts ==
    /\ canceled'
    /\ Abort("Canceled")
    /\ cancel_seen' = cancel_seen \cup {"sample"}
    /\ UNCHANGED <<progress, used_names, final_base, fields_before>>

\* lines 331-332
SampleCanceled ==
    /\ canceled'
    /\ pc' = "write"
    /\ fatal' = fatal
    /\ cancel_seen' = cancel_seen \cup {"sample"}
    /\ UNCHANGED <<progress, used_names, final_base, fields_before>>

\* lines 334-342
SampleSetup ==
    /\ ~canceled'
    /\ progress' = sample_progress(i, Len(clipped_rasters))
    /\ LET name == unique_name(base_name_from_clip(clipped_rasters[i + 1]),
                               used_names)
       IN  /\ final_base' = name
           /\ used_names' = used_names \cup {name}
    /\ fields_before' = FieldNames(grid)
    /\ pc' = "sampling"
    /\ fatal' = fatal
    /\ UNCHANGED cancel_seen

SampleBegin ==
    /\ pc = "sample"
    /\ i < Len(clipped_rasters)
    /\ canceled' \in PollCanceled
    /\ (SampleCanceled \/ SampleSetup)
    /\ warning' = ""
    /\ UNCHANGED <<raster_layers, i, files, clipped_rasters, clip_log,
                   clipped_src, grid_layer, mask_layer, grid, new_fields_sorted,
                   final_names, sample_log, rename_log, out_paths, written,
                   result, calls>>

\* the orders in which the sampler may append the columns of n bands
BandOrders(n) ==
    {f \in [1..n -> 1..n] : \A a, b \in 1..n : f[a] = f[b] => a = b}

\* the layer qgis:rastersampling returns: the input with one new column per
\* band of the raster file, named prefix + band number
Sampled(g, k, order) ==
    LET src == files[clipped_rasters[k + 1]]
    IN  [layer   |-> "sampled" \o ToString(k),
         rows    |-> g.rows,
         editing |-> FALSE,
         fields  |-> g.fields \o
                     [j \in 1..Len(order) |->
                        [name |-> tmp_prefix(k) \o ToString(order[j]),
                         src  |-> src,
                         band |-> order[j],
                         iter |-> k]]]

\* a sampling error that aborts the run
SamplingErrorAborts ==
    /\ sample_log' = Append(sample_log, "throw")
    /\ warning' = "Error sampling " \o final_base
    /\ pc' = "fatal"
    /\ fatal' = "Error sampling " \o final_base
    /\ i' = i + 1
    /\ UNCHANGED grid

\* lines 357-359
SamplingError ==
    /\ sample_log' = Append(sample_log, "throw")
    /\ warning' = "Error sampling " \o final_base
    /\ pc' = AfterIteration(i, Len(clipped_rasters), "sample", "write")
    /\ fatal' = fatal
    /\ i' = i + 1
    /\ UNCHANGED grid

\* lines 345-356
SamplingDone ==
    /\ \E order \in BandOrders(RasterBands[files[clipped_rasters[i + 1]]]) :
         grid' = Sampled(grid, i, order)
    /\ sample_log' = Append(sample_log, "ok")
    /\ warning' = ""
    /\ pc' = "resolve"
    /\ fatal' = fatal
    /\ UNCHANGED i

RunSampling ==
    /\ pc = "sampling"
    /\ (SamplingError \/ SamplingDone)
    /\ UNCHANGED <<raster_layers, canceled, progress, files, clipped_rasters,
                   clip_log, clipped_src, grid_layer, mask_layer, used_names,
                   final_base, fields_before, new_fields_sorted, final_names,
                   rename_log, cancel_seen, out_paths, written, result, calls>>

\* lines 362-366: the columns carrying the iteration's prefix, or, when there
\* is none, the columns that were not there before
new_fields(all_names, prefix, before) ==
    LET prefixed == SelectSeq(all_names, LAMBDA n : StartsWith(n, prefix))
    IN  IF prefixed # <<>> THEN prefixed
        ELSE SelectSeq(all_names, LAMBDA n : n \notin SeqToSet(before))

\* lines 362-373
ResolveNames ==
    /\ pc = "resolve"
    /\ LET sorted == sort_by_suffix(new_fields(FieldNames(grid), tmp_prefix(i),
                                               fields_before))
       IN  /\ new_fields_sorted' = sorted
           /\ IF Len(sorted) <= 1
              THEN /\ final_names' = <<final_base>>
                   /\ UNCHANGED used_names
              ELSE LET made == band_names(final_base, Len(sorted), 0,
                                          [names |-> <<>>, used |-> used_names])
                   IN  /\ final_names' = made.names
                       /\ used_names' = made.used
    /\ rename_log' = ""
    /\ pc' = "rename"
    /\ warning' = ""
    /\ UNCHANGED <<raster_layers, i, canceled, progress, fatal, files,
                   clipped_rasters, clip_log, clipped_src, grid_layer,
                   mask_layer, grid, final_base, fields_before, sample_log,
                   cancel_seen, out_paths, written, result, calls>>

\* QgsFields.indexOf, 1-based; 0 for -1
index_of(names, n) ==
    LET hits == {j \in 1..Len(names) : names[j] = n}
    IN  IF hits = {} THEN 0 ELSE CHOOSE j \in hits : \A h \in hits : j <= h

\* lines 377-383: field index -> new name; a later pair replaces an earlier
\* one of the same index
rename_map(g, olds, news) ==
    LET names == FieldNames(g)
        pairs == {j \in 1..Min(Len(olds), Len(news)) :
                     olds[j] # news[j] /\ index_of(names, olds[j]) # 0}
        last(idx) == CHOOSE j \in pairs :
                        /\ index_of(names, olds[j]) = idx
                        /\ \A h \in pairs : index_of(names, olds[h]) = idx => h <= j
    IN  [idx \in {index_of(names, olds[j]) : j \in pairs} |-> news[last(idx)]]

\* the fields once the provider has renamed the indexes in done
Renamed(g, map, done) ==
    [j \in 1..Len(g.fields) |->
        IF j \in done THEN [g.fields[j] EXCEPT !.name = map[j]] ELSE g.fields[j]]

\* lines 376-395.  renameAttributes acts on the data provider, outside the
\* layer's edit buffer: it renames the indexes in done and reports success
\* only when that is all of them; rollBack and commitChanges end the edit
\* session and leave the provider's fields as they are.  An exception leaves
\* the session open.
RenameColumns ==
    /\ pc = "rename"
    /\ LET map == rename_map(grid, new_fields_sorted, final_names)
       IN  IF DOMAIN map = {}
           THEN /\ rename_log' = "none"
                /\ warning' = ""
                /\ UNCHANGED grid
           ELSE \E done \in SUBSET DOMAIN map, threw \in BOOLEAN :
                  /\ threw => done = {}
                  /\ grid' = [grid EXCEPT !.fields = Renamed(grid, map, done),
                                          !.editing = threw]
                  /\ rename_log' = IF threw THEN "threw"
                                   ELSE IF done = DOMAIN map THEN "ok"
                                   ELSE "failed"
                  /\ warning' = IF threw
                                THEN "Error renaming fields for " \o final_base
                                ELSE IF done = DOMAIN map THEN ""
                                ELSE "Field renaming failed for one or more fields."
    /\ pc' = AfterIteration(i, Len(clipped_rasters), "sample", "write")
    /\ i' = i + 1
    /\ UNCHANGED <<raster_layers, canceled, progress, fatal, files,
                   clipped_rasters, clip_log, clipped_src, grid_layer,
                   mask_layer, used_names, final_base, fields_before,
                   new_fields_sorted, final_names, sample_log, cancel_seen,
                   out_paths, written, result, calls>>

(***************************************************************************)
(* Writing the outputs (lines 401-465).                                    *)
(***************************************************************************)
\* lines 409-412: the path given, or the default under the project home
resolve_path(given, default_name) ==
    IF given = "" THEN path_join(project_home, default_name) ELSE given

\* the values of OUTPUT_GPKG and OUTPUT_CSV a run may be given: each is left
\* blank in one of them
OutputParameters == {<<"", "/out/values.csv">>, <<"/out/values.gpkg", "">>}

\* lines 401-416
StartWrite ==
    /\ pc = "write"
    /\ progress' = 95
    /\ \E params \in OutputParameters :
         out_paths' = <<resolve_path(params[1], "raster_values.gpkg"),
                        resolve_path(params[2], "raster_values.csv")>>
    /\ pc' = "gpkg"
    /\ warning' = ""
    /\ UNCHANGED <<raster_layers, i, canceled, fatal, files, clipped_rasters,
                   clip_log, clipped_src, grid_layer, mask_layer, grid,
                   used_names, final_base, fields_before, new_fields_sorted,
                   final_names, sample_log, rename_log, cancel_seen, written,
                   result, calls>>

\* a GeoPackage failure that skips the CSV write
GpkgFailedSkipsCsv ==
    /\ written' = [written EXCEPT !.gpkg.attempts = @ + 1]
    /\ warning' = "Failed to write GeoPackage"
    /\ pc' = "finish"

\* lines 429-430
GpkgFailed ==
    /\ written' = [written EXCEPT !.gpkg.attempts = @ + 1]
    /\ warning' = "Failed to write GeoPackage"
    /\ pc' = "csv"

\* lines 421-428
GpkgWritten ==
    /\ written' = [written EXCEPT !.gpkg.attempts = @ + 1,
                                  !.gpkg.columns = FieldNames(grid)]
    /\ warning' = ""
    /\ pc' = "csv"

\* lines 419-430
WriteGpkg ==
    /\ pc = "gpkg"
    /\ out_paths[1] # ""
    /\ (GpkgWritten \/ GpkgFailed)
    /\ UNCHANGED <<raster_layers, i, canceled, progress, fatal, files,
                   clipped_rasters, clip_log, clipped_src, grid_layer,
                   mask_layer, grid, used_names, final_base, fields_before,
                   new_fields_sorted, final_names, sample_log, rename_log,
                   cancel_seen, out_paths, result, calls>>

\* lines 433-452; the CSV read back may or may not be a valid layer
WriteCsv ==
    /\ pc = "csv"
    /\ out_paths[2] # ""
    /\ \E o \in {"loaded", "notloaded", "throw"} :
         /\ written' = [written EXCEPT
                           !.csv.attempts = @ + 1,
                           !.csv.columns = IF o = "throw" THEN @
                                           ELSE FieldNames(grid)]
         /\ warning' = CASE o = "loaded" -> ""
                         [] o = "notloaded" -> "Could not load CSV"
                         [] o = "throw" -> "Failed to write CSV"
    /\ pc' = "finish"
    /\ UNCHANGED <<raster_layers, i, canceled, progress, fatal, files,
                   clipped_rasters, clip_log, clipped_src, grid_layer,
                   mask_layer, grid, used_names, final_base, fields_before,
                   new_fields_sorted, final_names, sample_log, rename_log,
                   cancel_seen, out_paths, result, calls>>

\* lines 454-465
Finish ==
    /\ pc = "finish"
    /\ progress' = 100
    /\ result' = out_paths
    /\ pc' = "done"
    /\ warning' = ""
    /\ UNCHANGED <<raster_layers, i, canceled, fatal, files, clipped_rasters,
                   clip_log, clipped_src, grid_layer, mask_layer, grid,
                   used_names, final_base, fields_before, new_fields_sorted,
                   final_names, sample_log, rename_log, cancel_seen, out_paths,
                   written, calls>>

Next ==
    \/ ReadParameters
    \/ ClipRaster
    \/ CheckClipped
    \/ LoadReference
    \/ CreateGrid
    \/ ApplyBuffer
    \/ ClipGrid
    \/ StartSampling
    \/ SampleBegin
    \/ RunSampling
    \/ ResolveNames
    \/ RenameColumns
    \/ StartWrite
    \/ WriteGpkg
    \/ WriteCsv
    \/ Finish

Spec == Init /\ [][Next]_vars

(***************************************************************************)
(* unique_name on its own: any sequence of calls on one registry.          *)
(***************************************************************************)
\* the base names of the calls
UNBases == {"a", "a_1", "a_2"}

InitUN ==
    /\ raster_layers = <<>>
    /\ pc = "un"
    /\ Blank

\* lines 306-314: one call of unique_name(base)
CallUniqueName ==
    /\ pc = "un"
    /\ Len(calls) < MaxCalls
    /\ \E base \in UNBases :
         LET n == unique_name(base, used_names)
         IN  /\ used_names' = used_names \cup {n}
             /\ calls' = Append(calls, [base |-> base, ret |-> n,
                                        before |-> used_names,
                                        after |-> used_names'])
    /\ UNCHANGED <<raster_layers, pc, i, canceled, progress, warning, fatal,
                   files, clipped_rasters, clip_log, clipped_src, grid_layer,
                   mask_layer, grid, final_base, fields_before,
                   new_fields_sorted, final_names, sample_log, rename_log,
                   cancel_seen, out_paths, written, result>>

NextUN == CallUniqueName

SpecUN == InitUN /\ [][NextUN]_vars

(***************************************************************************)
(* Properties.                                                             *)
(***************************************************************************)
NoValidRasters == "No valid rasters after clipping."

WritePhase == {"write", "gpkg", "csv", "finish", "done"}

\* the indexes of the grid columns added by sampling iteration k
ColumnsOf(k) == {j \in 1..Len(grid.fields) : grid.fields[j].iter = k}

\* C2: in any sequence of unique_name calls on one registry, no two calls
\* return the same name, the registry only grows, each call returns base when
\* base was unused and otherwise base_k for the smallest positive k with
\* base_k unused, and the returned name is in the registry after the call.
C2_UniqueName ==
    \A j \in 1..Len(calls) :
        LET c == calls[j]
            suffixed(k) == c.base \o "_" \o ToString(k)
        IN  /\ \A h \in 1..(j - 1) : calls[h].ret # c.ret
            /\ c.before \subseteq c.after
            /\ j > 1 => c.before = calls[j - 1].after
            /\ j = Len(calls) => c.after = used_names
            /\ c.ret \in c.after
            /\ IF c.base \notin c.before
               THEN c.ret = c.base
               ELSE \E k \in 1..(Cardinality(c.before) + 1) :
                      /\ c.ret = suffixed(k)
                      /\ suffixed(k) \notin c.before
                      /\ \A h \in 1..(k - 1) : suffixed(h) \in c.before

\* C2 witness: the base "a" was taken, and so were a_1 and a_2 by calls with
\* those bases, so that a call with base "a" returned a_3
C2_Witness ==
    \E j \in 1..Len(calls) :
        /\ calls[j].base = "a"
        /\ calls[j].ret = "a_3"
        /\ {"a", "a_1", "a_2"} \subseteq calls[j].before

\* the band of the progress values reported by the step taken at position p
\* (clip 0-30, grid 30-50, sample 55-95, write 95-100); a step that reports
\* nothing leaves the value in the band it was in
PhaseBand(p) ==
    CASE p = "read" -> {0}
      [] p \in {"clip", "checkclip", "ref"} -> 0..30
      [] p \in {"grid", "buffer", "clipgrid"} -> 30..50
      [] p \in {"startsample", "sample", "sampling", "resolve", "rename"} -> 55..95
      [] p \in {"write", "gpkg", "csv", "finish"} -> 95..100
      [] OTHER -> 0..100

C8_Writes ==
    /\ pc = "gpkg" => written.gpkg.attempts = 0 /\ written.csv.attempts = 0
    /\ pc = "csv" => written.gpkg.attempts = 1 /\ written.csv.attempts = 0
    /\ pc \in {"finish", "done"} =>
          written.gpkg.attempts = 1 /\ written.csv.attempts = 1
    /\ pc = "fatal" => written = NoWrites
    /\ pc = "done" =>
          /\ result = out_paths
          /\ result[1] \in {"/out/values.gpkg", "/proj/raster_values.gpkg"}
          /\ result[2] \in {"/out/values.csv", "/proj/raster_values.csv"}
    /\ pc # "done" => result = <<>>

\* C8 witness: a completed run whose GeoPackage write failed and whose CSV
\* write then succeeded
C8_Witness ==
    /\ pc = "done"
    /\ written.gpkg = [attempts |-> 1, columns |-> <<>>]
    /\ written.csv = [attempts |-> 1, columns |-> FieldNames(grid)]
    /\ result = <<"/proj/raster_values.gpkg", "/out/values.csv">>

\* C3: a sampling call that throws is answered with a warning, leaves the grid
\* as it was, raises no fatal error and moves on to the next clipped raster;
\* unless the loop is cancelled, every clipped raster gets its sampling call.
C3_SamplingFailure ==
    /\ [][(pc = "sampling" /\ sample_log' = Append(sample_log, "throw")) =>
            /\ grid' = grid
            /\ StartsWith(warning', "Error sampling")
            /\ fatal' = ""
            /\ i' = i + 1
            /\ pc' = (IF i + 1 < Len(clipped_rasters) THEN "sample" ELSE "write")]_vars
    /\ []((pc \in WritePhase /\ "sample" \notin cancel_seen) =>
            Len(sample_log) = Len(clipped_rasters))

\* C3 witness: the first clipped raster's sampling threw, the second was then
\* sampled, and the run completed
C3_Witness ==
    /\ pc = "done"
    /\ sample_log = <<"throw", "ok">>
    /\ ColumnsOf(0) = {}
    /\ ColumnsOf(1) # {}

\* C5 as claimed: once a loop has observed the cancellation, no fatal error is
\* raised on its account, the first clipping iteration included.
C5_NoFatalAfterCancel ==
    "clip" \in cancel_seen => fatal # NoValidRasters

\* C5, amended: a cancellation observed by the clipping loop ends the loop
\* with the clipped rasters and scratch files kept, and the pipeline goes on
\* to the reference stage when at least one raster had been clipped (with none
\* it aborts with "No valid rasters after clipping."); a cancellation observed
\* by the sampling loop ends the loop with the grid kept and leads to the
\* write phase, never to a fatal error; the write phase leaves the grid alone
\* and what it writes is the grid's columns.
C5_Cancellation ==
    /\ [][/\ (pc = "clip" /\ "clip" \in cancel_seen') =>
               /\ pc' = "checkclip"
               /\ clipped_rasters' = clipped_rasters
               /\ files' = files
               /\ fatal' = ""
          /\ (pc = "checkclip" /\ "clip" \in cancel_seen) =>
               /\ clipped_rasters' = clipped_rasters
               /\ IF clipped_rasters # <<>>
                  THEN pc' = "ref" /\ fatal' = ""
                  ELSE pc' = "fatal" /\ fatal' = NoValidRasters
          /\ (pc = "sample" /\ "sample" \in cancel_seen') =>
               /\ pc' = "write"
               /\ grid' = grid
               /\ fatal' = ""
          /\ pc \in WritePhase =>
               /\ grid' = grid
               /\ pc' \in WritePhase]_vars
    /\ []("sample" \in cancel_seen => fatal = "")
    /\ [](written.gpkg.columns \in {<<>>, FieldNames(grid)})
    /\ [](written.csv.columns \in {<<>>, FieldNames(grid)})

\* C5 witness: of two clipped rasters the first was sampled, the sampling loop
\* then observed the cancellation, and the partial grid was written
C5_Witness ==
    /\ pc = "done"
    /\ cancel_seen = {"sample"}
    /\ Len(clipped_rasters) = 2
    /\ sample_log = <<"ok">>
    /\ ColumnsOf(0) # {}
    /\ written.gpkg.columns = FieldNames(grid)

\* the 0-based input indexes of the rasters whose clip failed
FailedClips == {k \in 0..(Len(clip_log) - 1) : clip_log[k + 1] = "failed"}

\* the clipping phase of C4: no clipped raster comes from a failed clip, every
\* written clip gives one, every raster is attempted unless the loop was
\* cancelled, and the phase aborts exactly when no raster survived
C4_ClippingPhase ==
    /\ \A k \in FailedClips : k \notin SeqToSet(clipped_src)
    /\ \A k \in 0..(Len(clip_log) - 1) :
          clip_log[k + 1] = "written" => k \in SeqToSet(clipped_src)
    /\ (pc \notin {"read", "clip"} /\ "clip" \notin cancel_seen
          /\ raster_layers # <<>> /\ fatal # "Error: invalid field polygon.")
          => Len(clip_log) = Len(raster_layers)
    /\ fatal = NoValidRasters => clipped_rasters = <<>>
    /\ pc \notin {"read", "clip", "checkclip", "fatal"} => clipped_rasters # <<>>

\* C4 as claimed: when at least one raster survives clipping the pipeline
\* runs to completion, with columns for each surviving raster and none for
\* the failed ones.
C4_SurvivorsComplete ==
    /\ C4_ClippingPhase
    /\ (pc \notin {"read", "clip"} /\ clipped_rasters # <<>>) => fatal = ""
    /\ pc = "done" =>
          /\ \A j \in 0..(Len(clipped_rasters) - 1) : ColumnsOf(j) # {}
          /\ \A j \in 1..Len(grid.fields) :
                grid.fields[j].iter >= 0 =>
                   clipped_src[grid.fields[j].iter + 1] \notin FailedClips

\* C4, amended: a failed clip only skips its raster, the clipping phase aborts
\* exactly when no raster survived, and a run that completes has columns for
\* each surviving raster whose sampling call was made and succeeded, and none
\* for the failed ones; the sampling call is made for every surviving raster
\* unless the sampling loop was cancelled.
C4_Survivors ==
    /\ C4_ClippingPhase
    /\ pc = "done" =>
          /\ \A j \in 0..(Len(sample_log) - 1) :
                sample_log[j + 1] = "ok" => ColumnsOf(j) # {}
          /\ "sample" \notin cancel_seen => Len(sample_log) = Len(clipped_rasters)
          /\ \A j \in 1..Len(grid.fields) :
                grid.fields[j].iter >= 0 =>
                   clipped_src[grid.fields[j].iter + 1] \notin FailedClips

\* C4 witness: of two rasters the first clip failed, the second survived, and
\* the completed run has columns of the second raster only
C4_Witness ==
    /\ pc = "done"
    /\ clip_log = <<"failed", "written">>
    /\ clipped_src = <<1>>
    /\ sample_log = <<"ok">>
    /\ ColumnsOf(0) # {}
    /\ \A j \in 1..Len(grid.fields) : grid.fields[j].iter \in {-1, 0}

\* C1: at every point of a run the column names of the grid are pairwise
\* distinct, and no name resolved for a new column is the name of another
\* column of the grid, the columns the grid had before sampling and the
\* temp-named columns left by earlier iterations included.
C1_UniqueColumnNames ==
    LET names == FieldNames(grid)
    IN  /\ \A a, b \in 1..Len(names) : names[a] = names[b] => a = b
        /\ pc = "rename" =>
              \A k \in 1..Min(Len(final_names), Len(new_fields_sorted)) :
                 \A j \in 1..Len(names) :
                    names[j] = final_names[k] => names[j] = new_fields_sorted[k]

\* C6: after a rename step that failed or threw, the columns of that
\* iteration's raster either all carry their final names or all still carry
\* their temporary names.
C6_NeverHalfRenamed ==
    (pc \in {"sample", "write"} /\ rename_log \in {"failed", "threw"}) =>
        LET cols == ColumnsOf(i - 1)
        IN  \/ \A j \in cols : grid.fields[j].name \in SeqToSet(final_names)
            \/ \A j \in cols : StartsWith(grid.fields[j].name, tmp_prefix(i - 1))

\* the column, among those sampling iteration k added, whose band number is
\* the r-th smallest
BandColumn(k, r) ==
    CHOOSE j \in ColumnsOf(k) :
        Cardinality({h \in ColumnsOf(k) :
                        grid.fields[h].band < grid.fields[j].band}) = r - 1

\* C7: when sampling added one column its final name is final_base; when it
\* added N > 1, the column of the r-th smallest band number gets the name
\* unique_name(final_base_B<r>), r = 1..N, whatever the order the sampler
\* appended them in; a rename that succeeds gives the columns these names.
C7_BandNaming ==
    LET n == Cardinality(ColumnsOf(i))
        band_name(r) == final_base \o "_B" \o ToString(r)
    IN  /\ (pc = "rename" /\ n = 1) =>
              /\ final_names = <<final_base>>
              /\ new_fields_sorted = <<grid.fields[BandColumn(i, 1)].name>>
        /\ (pc = "rename" /\ n > 1) =>
              /\ Len(final_names) = n
              /\ Len(new_fields_sorted) = n
              /\ \A r \in 1..n :
                    /\ new_fields_sorted[r] = grid.fields[BandColumn(i, r)].name
                    /\ final_names[r] \in used_names
                    /\ \/ final_names[r] = band_name(r)
                       \/ /\ StartsWith(final_names[r], band_name(r) \o "_")
                          /\ band_name(r) \in used_names
        /\ (pc \in {"sample", "write"} /\ rename_log = "ok") =>
              LET m == Cardinality(ColumnsOf(i - 1))
              IN  \A r \in 1..m :
                     grid.fields[BandColumn(i - 1, r)].name = final_names[r]

\* C10: every entry of clipped_rasters holds the clip of its own source; the
\* clip of a later source never replaces it.
C10_OwnClip ==
    \A j \in 1..Len(clipped_rasters) :
        files[clipped_rasters[j]] = raster_layers[clipped_src[j] + 1]

=============================================================================
